---------------------------- MODULE Spec2Model ----------------------------
(***************************************************************************)
(* cliresms: sending webtexts through carrier web portals.                 *)
(*                                                                         *)
(* The model follows src/cliresms.py: main()'s retry loop, send_message(), *)
(* the Account class with its three carriers (meteor, three, o2), the      *)
(* persisted cookie jar, the texts_remaining property and the pure helpers *)
(* validate_number and split_message.  Python strings are TLA+ strings;    *)
(* every network request (urlopen) is one step whose response is chosen by *)
(* the environment.                                                        *)
(***************************************************************************)
EXTENDS Integers, Sequences, FiniteSets, TLC

(***************************************************************************)
(* Bounds of the model.                                                    *)
(***************************************************************************)
MaxRecipients == 2      \* length of the recipient list given to main()
MaxSegments == 2        \* the longest message splits into this many texts
MaxQuota == 2           \* largest remaining-texts count the portal reports
MaxAttempts == 2        \* calls of send_message() by main()'s while loop
MaxLen == 5             \* longest message given to split_message() on its own
MaxLength == 3          \* largest length argument given to split_message() on its own
MaxRecursion == 2       \* nested _get_texts_remaining() frames the interpreter allows

(***************************************************************************)
(* Python values.                                                          *)
(***************************************************************************)
\* None is the empty tuple and an integer n that may be None is <<n>>.
None == <<>>

Some(n) == <<n>>

Val(x) == x[1]

Digits == {"0", "1", "2", "3", "4", "5", "6", "7", "8", "9"}

\* The characters Python's \s and str.strip() treat as whitespace (ASCII).
Whitespace == {" ", "\t", "\n", "\r", "\f"}

Char(s, i) == SubSeq(s, i, i)

\* s[i:] for a 0-based i, as a 1-based suffix
From(s, i) == SubSeq(s, i, Len(s))

\* sub in s
Contains(s, sub) ==
    \E i \in 0..(Len(s) - Len(sub)) : SubSeq(s, i + 1, i + Len(sub)) = sub

StartsWith(s, prefix) ==
    Len(prefix) <= Len(s) /\ SubSeq(s, 1, Len(prefix)) = prefix

RECURSIVE Repeat(_, _)
Repeat(s, n) ==
    IF n <= 0 THEN ""
    ELSE IF n % 2 = 0 THEN LET half == Repeat(s, n \div 2) IN half \o half
    ELSE s \o Repeat(s, n - 1)

RECURSIVE Join(_, _)
Join(sep, list) ==
    IF list = <<>> THEN ""
    ELSE IF Len(list) = 1 THEN list[1]
    ELSE list[1] \o sep \o Join(sep, Tail(list))

\* re.sub(r'[\s\-\.]', '', s)
RECURSIVE RemoveFormatting(_)
RemoveFormatting(s) ==
    IF s = "" THEN ""
    ELSE IF Char(s, 1) \in Whitespace \cup {"-", "."}
         THEN RemoveFormatting(From(s, 2))
         ELSE Char(s, 1) \o RemoveFormatting(From(s, 2))

\* re.search(r'[^\d\+]', s)
HasInvalidChar(s) == \E i \in 1..Len(s) : Char(s, i) \notin Digits \cup {"+"}

\* re.sub(r'(\+353|00353)', '0', s): every non-overlapping match, left to right
RECURSIVE ToNational(_)
ToNational(s) ==
    IF s = "" THEN ""
    ELSE IF StartsWith(s, "+353") THEN "0" \o ToNational(From(s, 5))
    ELSE IF StartsWith(s, "00353") THEN "0" \o ToNational(From(s, 6))
    ELSE Char(s, 1) \o ToNational(From(s, 2))

\* re.search(r'^08[0-9]\d{7}', s): anchored at the start only
IsIrishMobile(s) ==
    /\ Len(s) >= 10
    /\ SubSeq(s, 1, 2) = "08"
    /\ \A i \in 3..10 : Char(s, i) \in Digits

(***************************************************************************)
(* validate_number: the result is [ok |-> TRUE, number |-> normalized] or  *)
(* [ok |-> FALSE] when the code raises ValueError.                         *)
(***************************************************************************)
Invalid == [ok |-> FALSE, number |-> ""]

Account_validate_number(recipient) ==
    LET r == RemoveFormatting(recipient)
    IN  IF HasInvalidChar(r) THEN Invalid ELSE [ok |-> TRUE, number |-> r]

MeteorAccount_validate_number(recipient) ==
    LET base == Account_validate_number(recipient)
        r == ToNational(base.number)
    IN  IF ~base.ok THEN Invalid
        ELSE IF IsIrishMobile(r) THEN [ok |-> TRUE, number |-> r]
        ELSE Invalid

validate_number(c, recipient) ==
    IF c = "meteor" THEN MeteorAccount_validate_number(recipient)
    ELSE Account_validate_number(recipient)

(***************************************************************************)
(* split_message                                                           *)
(***************************************************************************)
RECURSIVE LStrip(_)
LStrip(s) ==
    IF s # "" /\ Char(s, 1) \in Whitespace THEN LStrip(From(s, 2)) ELSE s

RECURSIVE RStrip(_)
RStrip(s) ==
    IF s # "" /\ Char(s, Len(s)) \in Whitespace
    THEN RStrip(SubSeq(s, 1, Len(s) - 1)) ELSE s

\* Mutant: only the left side is stripped.
Strip_LeftOnly(s) == LStrip(s)

Strip(s) == RStrip(LStrip(s))

Min(a, b) == IF a < b THEN a ELSE b

\* Mutant: every slice is stripped.
Slice_Stripped(message, i, length) ==
    Strip(SubSeq(message, i + 1, Min(i + length, Len(message))))

\* message[i:i+length] for the 0-based offset i
Slice(message, i, length) == SubSeq(message, i + 1, Min(i + length, Len(message)))

\* range(0, len(message), length) has this many elements
RangeCount(n, length) == (n + length - 1) \div length

split_message(message, length, allow_split) ==
    IF Len(message) > length
    THEN IF allow_split
         THEN [k \in 1..RangeCount(Len(message), length) |->
                    Strip(Slice(message, (k - 1) * length, length))]
         ELSE << Slice(message, 0, length) >>
    ELSE << Slice(message, 0, length) >>


(***************************************************************************)
(* Carriers: the subclasses of Account and their class data.               *)
(***************************************************************************)
Carriers == {"meteor", "three", "o2"}

message_length == 480

cookies_session(c) ==
    CASE c = "meteor" -> "JSESSIONID"
      [] c = "three"  -> "AWSELB"
      [] c = "o2"     -> "iPlanetDirectoryPro"

\* O2Account defines no 'login' cookie
cookies_login(c) ==
    CASE c = "meteor" -> "MyMeteorCMS-cookie"
      [] c = "three"  -> "CAKEPHP"
      [] c = "o2"     -> ""

login_url(c) ==
    CASE c = "meteor" -> "https://www.mymeteor.ie/go/mymeteor-login-manager"
      [] c = "three"  -> "https://webtexts.three.ie/webtext/users/login"
      [] c = "o2"     -> "https://www.o2online.ie/amserver/UI/Login"

loggedin_url(c) ==
    CASE c = "meteor" -> "https://www.mymeteor.ie/postpaylanding"
      [] c = "three"  -> "https://webtexts.three.ie/webtext/messages/send"
      [] c = "o2"     -> "http://www.o2online.ie/wps/wcm/connect/O2/Logged+in/LoginCheck"

(***************************************************************************)
(* Exceptions.  main() catches HTTPError, URLError and LoginException;     *)
(* everything else leaves main() and ends the process with a traceback.    *)
(***************************************************************************)
TransportErrors == {"HTTPError", "URLError"}

MsgLoginFailed == "Could not login."
MsgQuotaExhausted == "You don't have any more texts remaining."
MsgQuotaUnknown == "Could not determine number of texts remaining."
MsgServerError == "Server could not fulfill the request."
MsgUnreachable == "Server unreachable."

NoException == [type |-> "", message |-> ""]

(***************************************************************************)
(* Cookies.  A cookie is [name, expires, discard]; expires is None for a   *)
(* session cookie.  Time is counted in minutes.                            *)
(***************************************************************************)
\* os.path.isfile(__cookie_file__) and the cookies written in the file
NoFile == [exists |-> FALSE, cookies |-> {}]

File(cookies) == [exists |-> TRUE, cookies |-> cookies]

SessionMinutes == 30

Cookie(n, e, d) == [name |-> n, expires |-> e, discard |-> d]

\* Cookie.is_expired(now)
is_expired(c, t) == c.expires # None /\ Val(c.expires) <= t

\* CookieJar.set_cookie: one cookie per name
set_cookie(jar, c) == {d \in jar : d.name # c.name} \cup {c}

RECURSIVE set_cookies(_, _)
set_cookies(jar, cs) ==
    IF cs = {} THEN jar
    ELSE LET c == CHOOSE x \in cs : TRUE
         IN  set_cookies(set_cookie(jar, c), cs \ {c})

\* MozillaCookieJar.load(): a cookie without expiry is read back as a
\* discard cookie; discard and expired cookies are skipped.
cj_load(file, t) ==
    {c \in {Cookie(f.name, f.expires, f.expires = None) : f \in file} :
        ~c.discard /\ ~is_expired(c, t)}

\* MozillaCookieJar.save(): discard and expired cookies are not written.
cj_save(jar, t) == {c \in jar : ~c.discard /\ ~is_expired(c, t)}

\* Mutant: the loaded jar is never searched for a session.
HasSessionCookie_Never(jar, c) == FALSE

\* for c in self.cj: if c.name in self.cookies['session'] (a substring test)
HasSessionCookie(jar, c) ==
    \E k \in jar : Contains(cookies_session(c), k.name)


\* Account.save_cookies: [ok |-> FALSE] is the UnboundLocalError raised when
\* the jar holds no cookie named cookies['session'].
Account_save_cookies(c, jar, t) ==
    IF \E k \in jar : k.name = cookies_session(c)
    THEN [ok |-> TRUE,
          jar |-> set_cookie(jar, Cookie(cookies_session(c),
                                         Some(t + SessionMinutes), FALSE))]
    ELSE [ok |-> FALSE, jar |-> jar]

\* Mutant: the login cookie takes the session cookie's expiry.
ThreeAccount_save_cookies_LoginTakesSession(c, jar, t) ==
    IF /\ \E k \in jar : k.name = cookies_session(c)
       /\ \E k \in jar : k.name = cookies_login(c)
    THEN LET session_cookie == CHOOSE k \in jar : k.name = cookies_session(c)
             login_cookie == CHOOSE k \in jar : k.name = cookies_login(c)
         IN  [ok |-> TRUE,
              jar |-> set_cookie(
                         set_cookie(jar, Cookie(cookies_session(c),
                                                session_cookie.expires, FALSE)),
                         Cookie(cookies_login(c), session_cookie.expires,
                                login_cookie.discard))]
    ELSE [ok |-> FALSE, jar |-> jar]

\* ThreeAccount.save_cookies: the session cookie takes the login cookie's expiry.
ThreeAccount_save_cookies(c, jar, t) ==
    IF /\ \E k \in jar : k.name = cookies_session(c)
       /\ \E k \in jar : k.name = cookies_login(c)
    THEN LET login_cookie == CHOOSE k \in jar : k.name = cookies_login(c)
         IN  [ok |-> TRUE,
              jar |-> set_cookie(jar, Cookie(cookies_session(c),
                                             login_cookie.expires, FALSE))]
    ELSE [ok |-> FALSE, jar |-> jar]

save_cookies(c, jar, t) ==
    IF c = "three" THEN ThreeAccount_save_cookies(c, jar, t)
    ELSE Account_save_cookies(c, jar, t)

\* if self.loggedin_url in response.geturl()
LoggedIn(c, url) == Contains(url, loggedin_url(c))

(***************************************************************************)
(* The environment: what is typed, stored and answered.                    *)
(***************************************************************************)
\* What the user may name as a recipient: a number every carrier accepts
\* once normalized, and one no carrier accepts.
RawNumbers == {"+353 86-123.4567", "08x1234567"}

RecipientLists == UNION {[1..n -> RawNumbers] : n \in 1..MaxRecipients}

Messages == {Repeat("a", (k - 1) * message_length + 1) : k \in 1..MaxSegments}

\* A cookie whose name is a proper part of the carrier's session cookie name.
PartialName(c) ==
    CASE c = "meteor" -> "SESSIONID"
      [] c = "three"  -> "ELB"
      [] c = "o2"     -> "iPlanet"

\* The cookie file found at start: none, or one holding a single cookie that
\* expires after (or at) the start of the run.
InitialFiles(c) ==
    {NoFile,
     File({Cookie(cookies_session(c), Some(SessionMinutes), FALSE)}),
     File({Cookie(cookies_session(c), Some(0), FALSE)}),
     File({Cookie(PartialName(c), Some(SessionMinutes), FALSE)})}

\* Where the portal's answer to the login form ends up after redirects.
ResponseUrls(c) ==
    {loggedin_url(c),
     login_url(c) \o "?returnTo=" \o loggedin_url(c),
     login_url(c)}

\* The cookies the portal sets while answering the login form: the carrier's
\* cookies, with or without the session cookie.
ServerCookies(c, t) ==
    LET session == Cookie(cookies_session(c), None, TRUE)
        others == IF cookies_login(c) = "" THEN {}
                  ELSE {Cookie(cookies_login(c), Some(t + 2 * SessionMinutes), FALSE)}
    IN  {others \cup {session}, others}

SIDs == {"sidA", "sidB"}

\* -1 stands for a page in which the pattern is not found
QuotaValues == (-1)..MaxQuota

Choices == {"Y", "y", "", "n"}

Lower(choice) == IF choice = "Y" THEN "y" ELSE choice

\* One urlopen(): what was asked and what came back.  part is the index of the
\* message part a send request carries (0 for the other requests), resp the
\* answer (or the transport error raised), n the number scraped from a quota
\* page.
Req(kind, to, part, s, resp, n) ==
    [req |-> kind, to |-> to, part |-> part, sid |-> s, resp |-> resp, n |-> n]

(***************************************************************************)
(* send_message(), lines 275-281: the for loop over the list it mutates.   *)
(* i is the list iterator's index.                                         *)
(***************************************************************************)
RECURSIVE RemoveFirst(_, _)
RemoveFirst(list, x) ==
    IF list = <<>> THEN <<>>
    ELSE IF Head(list) = x THEN Tail(list)
    ELSE <<Head(list)>> \o RemoveFirst(Tail(list), x)

RECURSIVE ValidateLoop(_, _, _, _)
ValidateLoop(c, list, i, validated) ==
    IF i >= Len(list) THEN [recipients |-> list, validated |-> validated]
    ELSE LET v == validate_number(c, list[i + 1])
         IN  IF v.ok
             THEN ValidateLoop(c, list, i + 1, Append(validated, v.number))
             ELSE ValidateLoop(c, RemoveFirst(list, list[i + 1]), i + 1, validated)

\* Account.texts_remaining (getter): if not self._texts_remaining
NeedsFetch(t) == t = None \/ t = Some(0)

\* Mutant: main() catches the transport errors only.
Caught_TransportOnly == {"HTTPError", "URLError"}

\* main(), line 118: except (HTTPError, URLError, LoginException)
Caught == {"HTTPError", "URLError", "LoginException"}

\* main(), lines 119-120: the message logged for the exception
LoggedMessage(type, msg) ==
    CASE type = "HTTPError" -> MsgServerError
      [] type = "URLError"  -> MsgUnreachable
      [] OTHER              -> msg


(***************************************************************************)
(* State.                                                                  *)
(***************************************************************************)
VARIABLES
    py,                   \* major version of the interpreter running the script: 2 or 3
    carrier, split, message,   \* module globals set by main() before the loop
    recipients,           \* the global list, mutated by send_message()
    recipients_in,        \* the list as main() first passed it (never changes)
    cookie_file,          \* ~/.cliresms.cookie
    now,                  \* the time of the run, in minutes (a run is short)
    pc,                   \* where main()/send_message() stands
    attempt,              \* calls of send_message() so far
    cj,                   \* account.cj
    texts_remaining,      \* account._texts_remaining: None or <<n>>
    sid,                  \* account.sid ("" before find_sid sets it)
    depth,                \* _get_texts_remaining() frames on the stack
    recipients_validated, \* send_message()'s local list
    messages, idx,        \* split_message()'s result and the next part to send
    net,                  \* the requests of this call of send_message(), in order
    results,              \* what account.send_message() returned, per part tried
    last_decr, last_print,  \* line 297's read and line 298's read of the quota
    reused,               \* Account.login found a session in the cookie file
    exc,                  \* the exception that left send_message() last
    logged,               \* what main() logged for it (line 121)
    uncaught,             \* the exception that ended the process ("" if none)
    length,               \* split_message()'s length argument
    recipient,            \* validate_number()'s argument, when called on its own
    returned              \* what a function called on its own returned, per call

vars == <<py, carrier, split, message, recipients, recipients_in, cookie_file,
          now, pc, attempt, cj, texts_remaining, sid, depth,
          recipients_validated, messages, idx, net, results, last_decr,
          last_print, reused, exc, logged, uncaught, length, recipient,
          returned>>

errs == <<exc, logged, uncaught>>

\* the arguments and results of a function called on its own
calls == <<length, recipient, returned>>

globals == <<py, carrier, split, message, recipients_in, calls>>

account == <<cj, texts_remaining, sid, depth>>

locals == <<recipients_validated, messages, idx>>

reads == <<last_decr, last_print>>

NoRead == [before |-> 0, n |-> 0, value |-> 0, reqs |-> 0, seen |-> FALSE]

Init ==
    /\ py \in {2, 3}
    /\ carrier \in Carriers
    /\ message \in Messages
    /\ split \in IF Len(message) > message_length THEN BOOLEAN ELSE {TRUE}
    /\ recipients \in RecipientLists
    /\ recipients_in = recipients
    /\ cookie_file \in InitialFiles(carrier)
    /\ now = 0
    /\ pc = "call"
    /\ attempt = 0
    /\ cj = {}
    /\ texts_remaining = None
    /\ sid = ""
    /\ depth = 0
    /\ recipients_validated = <<>>
    /\ messages = <<>>
    /\ idx = 0
    /\ net = <<>>
    /\ results = <<>>
    /\ last_decr = NoRead
    /\ last_print = NoRead
    /\ reused = FALSE
    /\ exc = NoException
    /\ logged = ""
    /\ uncaught = ""
    /\ length = message_length
    /\ recipient = ""
    /\ returned = <<>>

(***************************************************************************)
(* Exceptions leaving send_message().                                      *)
(*                                                                         *)
(* main(), lines 118-122: a caught exception is logged and the user is     *)
(* asked.  Line 120 reads e.message, an attribute exceptions have under    *)
(* Python 2 only: under Python 3 the handler itself raises AttributeError  *)
(* before anything is asked.  An exception main() does not catch ends the  *)
(* process.                                                                *)
(***************************************************************************)
raise(type, msg) ==
    /\ exc' = [type |-> type, message |-> msg]
    /\ IF type \in Caught
       THEN IF py = 3
            THEN /\ pc' = "crashed"
                 /\ uncaught' = "AttributeError"
                 /\ logged' = logged
            ELSE /\ pc' = "prompt"
                 /\ uncaught' = uncaught
                 /\ logged' = LoggedMessage(type, msg)
       ELSE /\ pc' = "crashed"
            /\ uncaught' = type
            /\ logged' = logged

(***************************************************************************)
(* send_message(), lines 268-281: a new account and the validation of the  *)
(* recipients.  main() calls it at line 116, first on entering the loop    *)
(* and again after every accepted retry (line 124).                        *)
(***************************************************************************)
send_message_begin ==
    /\ LET v == ValidateLoop(carrier, recipients, 0, <<>>)
       IN  /\ recipients' = v.recipients
           /\ recipients_validated' = v.validated
    /\ attempt' = attempt + 1
    /\ cj' = {}
    /\ texts_remaining' = None
    /\ sid' = ""
    /\ depth' = 0
    /\ messages' = <<>>
    /\ idx' = 0
    /\ net' = <<>>
    /\ results' = <<>>
    /\ last_decr' = NoRead
    /\ last_print' = NoRead
    /\ pc' = "login"
    /\ reused' = FALSE
    /\ UNCHANGED <<globals, cookie_file, now, uncaught>>

\* main() enters its while loop
Start ==
    /\ pc = "call"
    /\ send_message_begin
    /\ UNCHANGED <<exc, logged>>

(***************************************************************************)
(* Account.login (O2Account.login calls it with its own request).          *)
(***************************************************************************)
\* Mutant: O2Account.login returns Account.login's result, without find_sid.
AfterLogin_SkipSid == "L287"

AfterLogin == IF carrier = "o2" THEN "find_sid" ELSE "L287"

\* lines 345-351: the jar after self.cj.load()
Loaded == IF cookie_file.exists
          THEN set_cookies(cj, cj_load(cookie_file.cookies, now))
          ELSE cj

\* lines 352-356
Reuse == cookie_file.exists /\ HasSessionCookie(Loaded, carrier)

Login ==
    /\ pc = "login"
    /\ \/ /\ Reuse
          /\ cj' = Loaded
          /\ pc' = AfterLogin
          /\ reused' = TRUE
          /\ UNCHANGED <<net, cookie_file, errs>>
       \/ /\ ~Reuse
          /\ \E kind \in TransportErrors :
                /\ net' = Append(net, Req("login", "", 0, "", kind, 0))
                /\ raise(kind, "")
          /\ cj' = Loaded
          /\ UNCHANGED <<cookie_file, reused>>
       \/ /\ ~Reuse
          /\ \E url \in ResponseUrls(carrier), set \in ServerCookies(carrier, now) :
                LET jar == set_cookies(Loaded, set)
                    saved == save_cookies(carrier, jar, now)
                IN  /\ net' = Append(net, Req("login", "", 0, "", url, 0))
                    /\ IF LoggedIn(carrier, url)
                       THEN IF saved.ok
                            THEN /\ cj' = saved.jar
                                 /\ cookie_file' = File(cj_save(saved.jar, now))
                                 /\ pc' = AfterLogin
                                 /\ UNCHANGED errs
                            ELSE /\ cj' = jar
                                 /\ raise("UnboundLocalError", "")
                                 /\ UNCHANGED cookie_file
                       ELSE /\ cj' = jar
                            /\ raise("LoginException", MsgLoginFailed)
                            /\ UNCHANGED cookie_file
          /\ UNCHANGED reused
    /\ UNCHANGED <<globals, recipients, now, attempt, texts_remaining, sid,
                   depth, locals, results, reads>>

\* O2Account.find_sid
FindSid ==
    /\ pc = "find_sid"
    /\ \/ \E kind \in TransportErrors :
             /\ net' = Append(net, Req("sid", "", 0, "", kind, 0))
             /\ raise(kind, "")
             /\ UNCHANGED sid
       \/ \E s \in SIDs :
             /\ net' = Append(net, Req("sid", "", 0, "", s, 0))
             /\ sid' = s
             /\ pc' = "L287"
             /\ UNCHANGED errs
       \/ /\ net' = Append(net, Req("sid", "", 0, "", "", 0))
          /\ raise("LoginException", MsgLoginFailed)
          /\ UNCHANGED sid
    /\ UNCHANGED <<globals, recipients, cookie_file, now, attempt, cj,
                   texts_remaining, depth, locals, results, reads, reused>>


(***************************************************************************)
(* The texts_remaining property.  The getter calls _get_texts_remaining()  *)
(* whenever the cached value is None or 0; _get_texts_remaining() stores   *)
(* the number it scraped and returns self.texts_remaining, which is the    *)
(* getter again: while the portal answers 0 the calls nest, one request    *)
(* each, until an answer is not 0 (every frame then returns it) or the     *)
(* interpreter's recursion limit is hit (RuntimeError under Python 2,      *)
(* RecursionError under Python 3; main() catches neither).                 *)
(***************************************************************************)
ReadPoints == {"L287", "L289", "L297", "L298"}

\* O2Account._get_texts_remaining, line 553: Request.get_origin_req_host()
\* does not exist under Python 3
NoOriginReqHost == carrier = "o2" /\ py = 3

GetTextsRemaining ==
    /\ pc \in ReadPoints
    /\ NeedsFetch(texts_remaining)
    /\ \/ /\ depth >= MaxRecursion
          /\ raise("RecursionError", "")
          /\ UNCHANGED <<net, texts_remaining, depth>>
       \/ /\ depth < MaxRecursion
          /\ NoOriginReqHost
          /\ raise("AttributeError", "")
          /\ UNCHANGED <<net, texts_remaining, depth>>
       \/ /\ depth < MaxRecursion
          /\ ~NoOriginReqHost
          /\ \E kind \in TransportErrors :
                /\ net' = Append(net, Req("quota", "", 0, sid, kind, 0))
                /\ raise(kind, "")
          /\ UNCHANGED <<texts_remaining, depth>>
       \/ /\ depth < MaxRecursion
          /\ ~NoOriginReqHost
          /\ \E v \in QuotaValues :
                /\ net' = Append(net, Req("quota", "", 0, sid, "page", v))
                /\ texts_remaining' = Some(v)
                /\ depth' = IF v = 0 THEN depth + 1 ELSE 0
          /\ UNCHANGED <<pc, errs>>
    /\ UNCHANGED <<globals, recipients, cookie_file, now, attempt, cj, sid,
                   locals, results, reads, reused>>

(***************************************************************************)
(* send_message(), lines 287-290: the quota checks.                        *)
(***************************************************************************)
CheckExhausted ==
    /\ pc = "L287"
    /\ ~NeedsFetch(texts_remaining)
    /\ IF Val(texts_remaining) = 0
       THEN raise("LoginException", MsgQuotaExhausted)
       ELSE /\ pc' = "L289"
            /\ UNCHANGED errs
    /\ UNCHANGED <<globals, recipients, cookie_file, now, attempt, account,
                   locals, net, results, reads, reused>>

\* line 289, and on the way to the loop lines 293-295
CheckUnknown ==
    /\ pc = "L289"
    /\ ~NeedsFetch(texts_remaining)
    /\ IF Val(texts_remaining) < 0
       THEN /\ raise("LoginException", MsgQuotaUnknown)
            /\ UNCHANGED <<messages, idx>>
       ELSE /\ messages' = split_message(message, message_length, split)
            /\ idx' = 1
            /\ pc' = "L296"
            /\ UNCHANGED errs
    /\ UNCHANGED <<globals, recipients, cookie_file, now, attempt, account,
                   recipients_validated, net, results, reads, reused>>

(***************************************************************************)
(* send_message(), line 296: the carrier's send_message for messages[part]. *)
(***************************************************************************)
\* MeteorAccount.send_message: one request per recipient, then the send
MeteorAdds ==
    [i \in 1..Len(recipients_validated) |->
        Req("add", recipients_validated[i], 0, "", "ok", 0)]

\* Mutant: the send request is made before the recipients are added.
MeteorSend_SendFirst(part) ==
    \E body \in {"sentTrue", ""} :
        /\ net' = net \o <<Req("send", "", part, "", body, 0)>> \o MeteorAdds
        /\ results' = Append(results, body = "sentTrue")
        /\ pc' = IF body = "sentTrue" THEN "L297" ELSE "L296"
        /\ idx' = IF body = "sentTrue" THEN idx ELSE idx + 1
        /\ UNCHANGED errs

MeteorSend(part) ==
    \/ \E k \in 1..Len(recipients_validated), kind \in TransportErrors :
          /\ net' = net \o SubSeq(MeteorAdds, 1, k - 1)
                        \o <<Req("add", recipients_validated[k], 0, "", kind, 0)>>
          /\ raise(kind, "")
          /\ UNCHANGED <<results, idx>>
    \/ \E kind \in TransportErrors :
          /\ net' = net \o MeteorAdds \o <<Req("send", "", part, "", kind, 0)>>
          /\ raise(kind, "")
          /\ UNCHANGED <<results, idx>>
    \/ \E body \in {"sentTrue", ""} :
          /\ net' = net \o MeteorAdds \o <<Req("send", "", part, "", body, 0)>>
          /\ results' = Append(results, body = "sentTrue")
          /\ pc' = IF body = "sentTrue" THEN "L297" ELSE "L296"
          /\ idx' = IF body = "sentTrue" THEN idx ELSE idx + 1
          /\ UNCHANGED errs

\* ThreeAccount.send_message: one request
ThreeSend(part) ==
    LET to == Join(", ", recipients_validated)
    IN  \/ \E kind \in TransportErrors :
              /\ net' = Append(net, Req("send", to, part, "", kind, 0))
              /\ raise(kind, "")
              /\ UNCHANGED <<results, idx>>
        \/ \E body \in {"Message sent", ""} :
              /\ net' = Append(net, Req("send", to, part, "", body, 0))
              /\ results' = Append(results, body = "Message sent")
              /\ pc' = IF body = "Message sent" THEN "L297" ELSE "L296"
              /\ idx' = IF body = "Message sent" THEN idx ELSE idx + 1
              /\ UNCHANGED errs

\* O2Account.send_message, line 566: the name recipient is not defined
O2Send(part) ==
    /\ raise("NameError", "")
    /\ UNCHANGED <<net, results, idx>>

SendPart ==
    /\ pc = "L296"
    /\ idx <= Len(messages)
    /\ CASE carrier = "meteor" -> MeteorSend(idx)
         [] carrier = "three"  -> ThreeSend(idx)
         [] carrier = "o2"     -> O2Send(idx)
    /\ UNCHANGED <<globals, recipients, cookie_file, now, attempt, account,
                   recipients_validated, messages, reads, reused>>

\* line 297: account.texts_remaining -= len(recipients_validated)
Decrement ==
    /\ pc = "L297"
    /\ ~NeedsFetch(texts_remaining)
    /\ texts_remaining' = Some(Val(texts_remaining) - Len(recipients_validated))
    /\ last_decr' = [NoRead EXCEPT !.before = Val(texts_remaining),
                                   !.n = Len(recipients_validated),
                                   !.reqs = Len(net),
                                   !.seen = TRUE]
    /\ last_print' = NoRead
    /\ pc' = "L298"
    /\ UNCHANGED <<globals, recipients, cookie_file, now, attempt, cj, sid,
                   depth, locals, net, results, reused, errs>>

\* line 298: print("Message sent, %s texts remaining." % account.texts_remaining)
PrintRemaining ==
    /\ pc = "L298"
    /\ ~NeedsFetch(texts_remaining)
    /\ last_print' = [NoRead EXCEPT !.value = Val(texts_remaining),
                                    !.reqs = Len(net),
                                    !.seen = TRUE]
    /\ idx' = idx + 1
    /\ pc' = "L296"
    /\ UNCHANGED <<globals, recipients, cookie_file, now, attempt, account,
                   recipients_validated, messages, net, results, last_decr,
                   reused, errs>>

\* the loop is over: send_message() returns and main() breaks (line 117)
Return ==
    /\ pc = "L296"
    /\ idx > Len(messages)
    /\ pc' = "done"
    /\ UNCHANGED <<globals, recipients, cookie_file, now, attempt, account,
                   locals, net, results, reads, reused, errs>>

(***************************************************************************)
(* main(), lines 122-126: "Retry send? [Y/n]".                             *)
(***************************************************************************)
RetryPrompt ==
    /\ pc = "prompt"
    /\ \E choice \in Choices :
          IF Lower(choice) \in {"y", ""}
          THEN /\ attempt < MaxAttempts
               /\ send_message_begin
               /\ exc' = NoException
               /\ logged' = ""
          ELSE /\ pc' = "aborted"
               /\ UNCHANGED <<globals, recipients, cookie_file, now, attempt,
                              account, locals, net, results, reads,
                              reused, errs>>

(***************************************************************************)
(* signal_handler, lines 325-327: ctrl+c at any point of the run calls     *)
(* sys.exit(1); no handler of main() catches SystemExit.                   *)
(***************************************************************************)
Terminated == {"done", "aborted", "crashed", "interrupted"}

Interrupt ==
    /\ pc \notin Terminated
    /\ pc' = "interrupted"
    /\ UNCHANGED <<globals, recipients, cookie_file, now, attempt, account,
                   locals, net, results, reads, reused, errs>>

(***************************************************************************)
(* The status the process exits with (None while it runs).  After the      *)
(* while loop, left by the break of line 117 or of line 126, main() calls  *)
(* save_aliases() and returns None, and sys.exit(None) at line 604 exits   *)
(* with 0.  An uncaught exception makes the interpreter exit with 1.       *)
(***************************************************************************)
exit_status ==
    CASE pc = "done"        -> Some(0)
      [] pc = "aborted"     -> Some(0)
      [] pc = "crashed"     -> Some(1)
      [] pc = "interrupted" -> Some(1)
      [] OTHER              -> None

Next ==
    \/ Start
    \/ Login
    \/ FindSid
    \/ GetTextsRemaining
    \/ CheckExhausted
    \/ CheckUnknown
    \/ SendPart
    \/ Decrement
    \/ PrintRemaining
    \/ Return
    \/ RetryPrompt
    \/ Interrupt

Spec == Init /\ [][Next]_vars


(***************************************************************************)
(* Properties.                                                             *)
(***************************************************************************)
Ended == pc \in {"prompt", "aborted", "crashed", "done"}

Requests(kinds) == {i \in 1..Len(net) : net[i].req \in kinds}

\* The quota pages received in this call of send_message(), in order.
QuotaAnswers == SelectSeq(net, LAMBDA r : r.req = "quota" /\ r.resp = "page")

QuotaMessages == {MsgQuotaExhausted, MsgQuotaUnknown}

\* The cookie file holds an unexpired cookie named exactly cookies['session'].
SessionInFile ==
    /\ cookie_file.exists
    /\ \E c \in cookie_file.cookies :
          c.name = cookies_session(carrier) /\ ~is_expired(c, now)

\* The numbers of list that validate_number accepts, normalized, in order.
RECURSIVE NormalizedValid(_, _)
NormalizedValid(c, list) ==
    IF list = <<>> THEN <<>>
    ELSE LET v == validate_number(c, Head(list))
         IN  (IF v.ok THEN <<v.number>> ELSE <<>>) \o NormalizedValid(c, Tail(list))

\* C1: within one call of send_message() (one account, one session) the quota
\* page is requested at most once; every later read of the quota is served
\* from the cached value, whatever it is.
C1_QuotaQueriedAtMostOnce == Cardinality(Requests({"quota"})) <= 1

\* C2: when the first quota page of an attempt reports 0 (or reports nothing,
\* -1) and no request fails, no recipient is registered and no part is sent,
\* and the attempt ends with the quota-exhausted (or quota-unknown) error.
C2_ZeroOrUnknownQuotaStops ==
    (/\ QuotaAnswers # <<>>
     /\ QuotaAnswers[1].n \in {0, -1}
     /\ exc.type \notin TransportErrors)
    => /\ Requests({"add", "send"}) = {}
       /\ Ended => exc = [type |-> "LoginException",
                          message |-> IF QuotaAnswers[1].n = 0
                                      THEN MsgQuotaExhausted
                                      ELSE MsgQuotaUnknown]

\* C3: the list handed to the carrier's send holds, normalized and in input
\* order, every recipient of the input list that validate_number accepts.
C3_ValidRecipientsAllKept ==
    attempt = 1 => recipients_validated = NormalizedValid(carrier, recipients_in)

\* C4: a transport failure that ends an attempt always leads to the retry
\* prompt (where the user accepts or declines).
C4_TransportFailureOffersRetry ==
    exc.type \in TransportErrors => pc \in {"prompt", "aborted", "interrupted"}

\* C5 as claimed: the retry prompt is never reached from the quota-exhausted
\* or the quota-unknown condition.
C5_NoRetryAfterQuotaError ==
    ~(pc = "prompt" /\ exc.message \in QuotaMessages)

\* C5 as amended: an attempt ended by a quota condition is raised as a
\* LoginException into main()'s handler, as a failed login is: under Python 2
\* the message is logged and the retry prompt is reached, under Python 3 the
\* handler fails on e.message as it does for every exception it catches.
C5_QuotaErrorHandledLikeLoginFailure ==
    exc.message \in QuotaMessages
    => /\ exc.type = "LoginException"
       /\ IF py = 2
          THEN pc \in {"prompt", "aborted", "interrupted"} /\ logged = exc.message
          ELSE pc = "crashed" /\ uncaught = "AttributeError"

C5_Witness ==
    pc = "prompt" /\ exc.message = MsgQuotaUnknown /\ logged = MsgQuotaUnknown

\* C6 as claimed: for every carrier, an unexpired session cookie in the cookie
\* file makes login() succeed without any request of the login handshake.
C6_ReuseSkipsHandshake ==
    /\ (pc = "login" /\ SessionInFile) => Reuse
    /\ reused => /\ Requests({"login", "sid"}) = {}
                 /\ exc.message # MsgLoginFailed

\* C6 as amended: an unexpired session cookie in the cookie file makes login()
\* skip the login form POST for every carrier.  For meteor and three login()
\* then succeeds without any request; for o2 the SID request is still issued
\* and login() succeeds only with the SID it found.
C6_ReuseSkipsFormPost ==
    /\ (pc = "login" /\ SessionInFile) => Reuse
    /\ reused => Requests({"login"}) = {}
    /\ (reused /\ carrier # "o2")
          => Requests({"sid"}) = {} /\ exc.message # MsgLoginFailed
    /\ (reused /\ carrier = "o2" /\ pc \in ReadPoints \cup {"L296"})
          => /\ sid # ""
             /\ \E i \in Requests({"sid"}) : net[i].resp = sid

C6_Witness ==
    /\ reused
    /\ SessionInFile
    /\ carrier = "o2"
    /\ pc = "L287"
    /\ Requests({"login"}) = {}
    /\ Requests({"sid"}) # {}

\* C7: login() reuses the stored session if and only if the cookie file holds
\* an unexpired cookie named exactly as the carrier's session cookie.
C7_ReuseIffExactSessionCookie ==
    pc = "login" => (Reuse <=> SessionInFile)

\* C8: an answered login form ends in success exactly when the resolved URL
\* starts with the carrier's logged-in URL; otherwise the attempt ends there
\* with the login-failed error, before any quota or send request.
C8_LoginSucceedsIffUrlPrefix ==
    \A i \in Requests({"login"}) :
        net[i].resp \notin TransportErrors
        => LET failed == /\ i = Len(net)
                         /\ exc = [type |-> "LoginException",
                                   message |-> MsgLoginFailed]
           IN  IF StartsWith(net[i].resp, loggedin_url(carrier))
               THEN ~failed
               ELSE failed

\* C9: after a part was sent to N recipients with a cached quota q > 0, the
\* next read of the quota (line 298) yields q - N without any request.
C9_ReadAfterSendIsLocal ==
    (last_print.seen /\ last_decr.before > 0)
    => /\ last_print.value = last_decr.before - last_decr.n
       /\ last_print.reqs = last_decr.reqs

\* C10: once sending has started the quota is no stop condition any more: a
\* decrement that brings the cached quota to 0 or below raises nothing (only
\* a transport failure may still end the attempt), and a completed attempt
\* has tried every part.
C10_SendingIgnoresQuota ==
    /\ (last_decr.seen /\ last_decr.before - last_decr.n <= 0
            /\ exc.type \notin TransportErrors)
          => exc = NoException /\ uncaught = ""
    /\ pc = "done" => Len(results) = Len(messages)


(***************************************************************************)
(* split_message() called on its own, on every short message made of a     *)
(* letter and a blank, with every small length and both values of the      *)
(* global split.                                                           *)
(***************************************************************************)
\* The strings of at most n characters of alphabet.
RECURSIVE Strings(_, _)
Strings(alphabet, n) ==
    IF n = 0 THEN {""}
    ELSE LET shorter == Strings(alphabet, n - 1)
         IN  shorter \cup {str \o c : str \in shorter, c \in alphabet}

\* The variables of main()'s loop, before it is entered.
NotSending ==
    /\ py = 3
    /\ recipients = <<>>
    /\ recipients_in = <<>>
    /\ cookie_file = NoFile
    /\ now = 0
    /\ attempt = 0
    /\ cj = {}
    /\ texts_remaining = None
    /\ sid = ""
    /\ depth = 0
    /\ recipients_validated = <<>>
    /\ idx = 0
    /\ net = <<>>
    /\ results = <<>>
    /\ last_decr = NoRead
    /\ last_print = NoRead
    /\ reused = FALSE
    /\ exc = NoException
    /\ logged = ""
    /\ uncaught = ""

SplitInit ==
    /\ NotSending
    /\ carrier = "meteor"
    /\ message \in Strings({"a", " "}, MaxLen)
    /\ length \in 1..MaxLength
    /\ split \in BOOLEAN
    /\ messages = <<>>
    /\ recipient = ""
    /\ returned = <<>>
    /\ pc = "split_message"

SplitCall ==
    /\ pc = "split_message"
    /\ messages' = split_message(message, length, split)
    /\ pc' = "returned"
    /\ UNCHANGED <<py, carrier, split, message, recipients, recipients_in,
                   cookie_file, now, attempt, account, recipients_validated,
                   idx, net, results, reads, reused, errs, calls>>

SplitSpec == SplitInit /\ [][SplitCall]_vars

\* ceil(n / d)
CeilDiv(n, d) == (n + d - 1) \div d

\* The k-th run of length characters of message (the last may be shorter).
Run(k) == SubSeq(message, (k - 1) * length + 1, Min(k * length, Len(message)))

IsWhitespace(str) == \A i \in 1..Len(str) : Char(str, i) \in Whitespace

\* seg is str without its leading and trailing whitespace.
StrippedFrom(seg, str) ==
    /\ seg = "" \/ (Char(seg, 1) \notin Whitespace
                    /\ Char(seg, Len(seg)) \notin Whitespace)
    /\ \E a \in 0..Len(str) : \E b \in a..Len(str) :
          /\ SubSeq(str, a + 1, b) = seg
          /\ IsWhitespace(SubSeq(str, 1, a))
          /\ IsWhitespace(SubSeq(str, b + 1, Len(str)))

Splits == pc = "returned" /\ split /\ Len(message) > length

\* C11 as claimed: when it splits, split_message returns ceil(len/length)
\* segments in order, each but the last of exactly length characters, each
\* being its run of the message without the whitespace stripped at its ends.
C11_SegmentsHaveFullLength ==
    Splits
    => /\ Len(messages) = CeilDiv(Len(message), length)
       /\ \A k \in 1..Len(messages) : StrippedFrom(messages[k], Run(k))
       /\ \A k \in 1..(Len(messages) - 1) : Len(messages[k]) = length

\* C11 as amended: when it splits, split_message returns ceil(len/length)
\* segments in order, the k-th being the k-th run of length characters
\* without its leading and trailing whitespace: a segment other than the last
\* has exactly length characters if and only if its run neither begins nor
\* ends with whitespace, and fewer otherwise.
C11_SegmentsAreStrippedRuns ==
    Splits
    => /\ Len(messages) = CeilDiv(Len(message), length)
       /\ \A k \in 1..Len(messages) : StrippedFrom(messages[k], Run(k))
       /\ \A k \in 1..(Len(messages) - 1) :
             /\ Len(messages[k]) <= length
             /\ Len(messages[k]) = length
                   <=> (Char(Run(k), 1) \notin Whitespace
                        /\ Char(Run(k), length) \notin Whitespace)

C11_Witness ==
    /\ Splits
    /\ Len(messages) >= 3
    /\ Len(messages[1]) = length
    /\ Len(messages[2]) < length

\* C12: when it does not split (the message fits, or split is off),
\* split_message returns one segment, the first length characters of the
\* message unaltered: the message itself when it fits.
C12_UnsplitIsPrefix ==
    (pc = "returned" /\ (Len(message) <= length \/ ~split))
    => /\ messages = << SubSeq(message, 1, Min(length, Len(message))) >>
       /\ Len(message) <= length => messages = << message >>

C12_Witness ==
    /\ pc = "returned"
    /\ ~split
    /\ Len(message) > length
    /\ Char(message, 1) \in Whitespace
    /\ messages = << SubSeq(message, 1, length) >>

(***************************************************************************)
(* validate_number() called on its own, and called again on what it        *)
(* returned.  The numbers tried are written the ways a user writes them:   *)
(* a national or international prefix followed by the rest of the number.  *)
(***************************************************************************)
NumberPrefixes == {"", "0", "+", "+353", "00353", "+353 ", "08+353"}

NumberRests ==
    {"851234567", "85 123-45.67", "8512345678", "85123456", "751234567",
     "0353123", "85123x567", "12+34", "851234567+"}

NumberInputs == {p \o r : p \in NumberPrefixes, r \in NumberRests}

ValidateInit ==
    /\ NotSending
    /\ carrier \in Carriers
    /\ recipient \in NumberInputs
    /\ returned = <<>>
    /\ message = ""
    /\ length = message_length
    /\ split = TRUE
    /\ messages = <<>>
    /\ pc = "validate_number"

ValidateCall ==
    /\ pc = "validate_number"
    /\ returned' = << validate_number(carrier, recipient) >>
    /\ pc' = "validated"
    /\ UNCHANGED <<py, carrier, split, message, recipients, recipients_in,
                   cookie_file, now, attempt, account, locals, net, results,
                   reads, reused, errs, length, recipient>>

ValidateAgain ==
    /\ pc = "validated"
    /\ returned[1].ok
    /\ returned' = Append(returned, validate_number(carrier, returned[1].number))
    /\ pc' = "revalidated"
    /\ UNCHANGED <<py, carrier, split, message, recipients, recipients_in,
                   cookie_file, now, attempt, account, locals, net, results,
                   reads, reused, errs, length, recipient>>

ValidateNext ==
    \/ ValidateCall
    \/ ValidateAgain

ValidateSpec == ValidateInit /\ [][ValidateNext]_vars

Validated == pc \in {"validated", "revalidated"}

AllDigits(str) == \A i \in 1..Len(str) : Char(str, i) \in Digits

\* Only digits, and at most one '+', which is the first character.
DigitsWithLeadingPlus(str) ==
    \A i \in 1..Len(str) :
        Char(str, i) \in Digits \/ (i = 1 /\ Char(str, i) = "+")

\* str with a leading +353 or 00353 rewritten to 0.
LeadingPrefixToZero(str) ==
    IF StartsWith(str, "+353") THEN "0" \o From(str, 5)
    ELSE IF StartsWith(str, "00353") THEN "0" \o From(str, 6)
    ELSE str

\* C13: a number that validate_number accepted is accepted again and
\* returned unchanged (base rule and meteor's rule).
C13_NormalizationIdempotent ==
    pc = "revalidated" => returned[2] = returned[1]

\* C14: meteor's validate_number rewrites a leading +353 or 00353 to 0 and
\* accepts the result exactly when it is 10 digits beginning with 08; it
\* then returns that result.
C14_MeteorAcceptsTenDigits08 ==
    (Validated /\ carrier = "meteor")
    => LET cleaned == RemoveFormatting(recipient)
           national == LeadingPrefixToZero(cleaned)
           expected == /\ ~HasInvalidChar(cleaned)
                       /\ Len(national) = 10
                       /\ AllDigits(national)
                       /\ StartsWith(national, "08")
       IN  /\ returned[1].ok <=> expected
           /\ returned[1].ok => returned[1].number = national

\* C15: the base validate_number removes whitespace, hyphens and dots and
\* accepts the rest exactly when it is digits with at most one '+', in first
\* place; what it returns is that rest and has that shape.
C15_BaseAcceptsLeadingPlusOnly ==
    (Validated /\ carrier # "meteor")
    => LET cleaned == RemoveFormatting(recipient)
       IN  /\ returned[1].ok <=> DigitsWithLeadingPlus(cleaned)
           /\ returned[1].ok => /\ returned[1].number = cleaned
                                /\ DigitsWithLeadingPlus(returned[1].number)

(***************************************************************************)
(* Properties of a run of main() (specification Spec), continued.          *)
(***************************************************************************)
\* C16: a send that failed and was not retried exits with a non-zero
\* status, a completed send exits with 0, an interrupt exits with 1.
C16_ExitStatus ==
    /\ pc = "aborted" => (exit_status # None /\ exit_status # Some(0))
    /\ pc = "done" => exit_status = Some(0)
    /\ pc = "interrupted" => exit_status = Some(1)

\* Account.login returned True in this call of send_message() before request j.
LoginPassedBefore(j) ==
    \/ reused
    \/ \E i \in 1..(j - 1) :
          net[i].req = "login" /\ LoggedIn(carrier, net[i].resp)

\* C17: in one call of send_message() no quota request precedes the success
\* of login (for o2, of find_sid too), no send or add request precedes the
\* first quota page, the k-th send request carries the k-th part, and for
\* meteor each send request directly follows the add requests of all the
\* validated recipients, in order.
C17_RequestsOrdered ==
    /\ \A j \in Requests({"quota"}) :
          /\ LoginPassedBefore(j)
          /\ carrier = "o2" =>
                \E i \in 1..(j - 1) : net[i].req = "sid" /\ net[i].resp \in SIDs
    /\ \A j \in Requests({"add", "send"}) :
          \E i \in 1..(j - 1) : net[i].req = "quota" /\ net[i].resp = "page"
    /\ \A j \in Requests({"send"}) :
          net[j].part = Cardinality({i \in Requests({"send"}) : i <= j})
    /\ carrier = "meteor" =>
          \A j \in Requests({"send"}) :
              LET n == Len(recipients_validated)
              IN  /\ j > n
                  /\ \A r \in 1..n :
                        net[j - n + r - 1] =
                            Req("add", recipients_validated[r], 0, "", "ok", 0)

C17_Witness ==
    /\ carrier = "meteor"
    /\ pc = "done"
    /\ Len(recipients_validated) = 2
    /\ Cardinality(Requests({"send"})) = 2
    /\ Cardinality(Requests({"add"})) = 4
    /\ Requests({"login"}) # {}

\* send_message() is past line 283: login() returned True.
LoggedInPoints == ReadPoints \cup {"L296", "done"}

\* C18 as claimed: for o2, login() returns True only after a form POST that
\* ended logged in and a SID request that gave a SID, and every quota or
\* send request carries that SID.
C18_O2LoginHasBothPhases ==
    carrier = "o2"
    => /\ pc \in LoggedInPoints
             => /\ \E i \in Requests({"login"}) : LoggedIn(carrier, net[i].resp)
                /\ \E i \in Requests({"sid"}) : net[i].resp = sid
                /\ sid \in SIDs
       /\ \A j \in Requests({"quota", "send"}) :
             net[j].sid = sid /\ sid \in SIDs

\* C18 as amended: for o2, login() returns True only after Account.login
\* returned True (a session found in the cookie file, or a form POST that
\* ended logged in) and a SID request that gave a SID, and every quota or
\* send request carries that SID.
C18_O2LoginNeedsSid ==
    carrier = "o2"
    => /\ pc \in LoggedInPoints
             => /\ LoginPassedBefore(Len(net) + 1)
                /\ \E i \in Requests({"sid"}) : net[i].resp = sid
                /\ sid \in SIDs
       /\ \A j \in Requests({"quota", "send"}) :
             net[j].sid = sid /\ sid \in SIDs

C18_Witness ==
    /\ carrier = "o2"
    /\ pc = "L296"
    /\ ~reused
    /\ sid \in SIDs
    /\ \E i \in Requests({"login"}) : LoggedIn(carrier, net[i].resp)
    /\ \E j \in Requests({"quota"}) : net[j].sid = sid

\* The expiries the portal may give the cookie called name.
PortalExpiry(name) ==
    {k.expires : k \in {x \in UNION ServerCookies(carrier, now) : x.name = name}}

Named(jar, name) == CHOOSE k \in jar : k.name = name

Holds(jar, name) == \E k \in jar : k.name = name

\* login() returned True after a form POST, so save_cookies() has run.
SavedAfterLogin == pc \in LoggedInPoints /\ ~reused

\* C19 as claimed: after three's save_cookies the login cookie has the
\* expiry the session cookie came with, the session cookie is no discard
\* cookie, and both are in the saved file with one expiry.
C19_LoginTakesSessionExpiry ==
    (carrier = "three" /\ SavedAfterLogin)
    => /\ Holds(cj, cookies_session(carrier)) /\ Holds(cj, cookies_login(carrier))
       /\ LET session_cookie == Named(cj, cookies_session(carrier))
              login_cookie == Named(cj, cookies_login(carrier))
          IN  /\ login_cookie.expires \in PortalExpiry(cookies_session(carrier))
              /\ session_cookie.expires = login_cookie.expires
              /\ ~session_cookie.discard
              /\ {session_cookie, login_cookie} \subseteq cookie_file.cookies

\* C19 as amended: after three's save_cookies the session cookie has the
\* expiry the login cookie came with (the login cookie is left as it was),
\* the session cookie is no discard cookie, and both are in the saved file
\* with one expiry.
C19_SessionTakesLoginExpiry ==
    (carrier = "three" /\ SavedAfterLogin)
    => /\ Holds(cj, cookies_session(carrier)) /\ Holds(cj, cookies_login(carrier))
       /\ LET session_cookie == Named(cj, cookies_session(carrier))
              login_cookie == Named(cj, cookies_login(carrier))
          IN  /\ login_cookie.expires \in PortalExpiry(cookies_login(carrier))
              /\ session_cookie.expires = login_cookie.expires
              /\ ~session_cookie.discard
              /\ {session_cookie, login_cookie} \subseteq cookie_file.cookies

C19_Witness ==
    /\ carrier = "three"
    /\ pc = "L287"
    /\ ~reused
    /\ cookie_file = File({Cookie("AWSELB", Some(2 * SessionMinutes), FALSE),
                           Cookie("CAKEPHP", Some(2 * SessionMinutes), FALSE)})

\* C20: with the base save_cookies (meteor, o2), every form POST that ends
\* logged in leaves in the cookie file the session cookie, no discard cookie
\* and expiring 30 minutes after the login, and save_cookies does not fail
\* when the portal sent no session cookie; nothing but such a login writes
\* the file.
C20_BasePersistAfterLogin ==
    /\ (carrier # "three"
          /\ \E i \in Requests({"login"}) : LoggedIn(carrier, net[i].resp))
       => /\ uncaught # "UnboundLocalError"
          /\ cookie_file.exists
          /\ Cookie(cookies_session(carrier), Some(now + SessionMinutes), FALSE)
                \in cookie_file.cookies
    /\ (attempt <= 1
          /\ ~\E i \in Requests({"login"}) : LoggedIn(carrier, net[i].resp))
       => cookie_file \in InitialFiles(carrier)

\* C21: for o2 a response that cannot be parsed is a value: as the answer to
\* the quota request it leaves -1 as the cached quota, and once sending has
\* started no unhandled error ends the attempt (a part whose answer cannot
\* be parsed counts as not sent).
C21_O2UnparseableIsValue ==
    carrier = "o2"
    => /\ (/\ net # <<>>
           /\ net[Len(net)].req = "quota"
           /\ net[Len(net)].resp = "page"
           /\ net[Len(net)].n = -1)
          => texts_remaining = Some(-1) /\ uncaught = ""
       /\ messages # <<>> => uncaught = ""

\* C22: an attempt ends in done, at the retry prompt or aborted (or by an
\* interrupt), never by an error that ends the process, and no request is
\* repeated without a decision of the user: no quota request directly
\* follows a quota request.
C22_AttemptEndsWithoutRepeating ==
    /\ pc # "crashed"
    /\ \A i \in 1..(Len(net) - 1) :
          ~(net[i].req = "quota" /\ net[i + 1].req = "quota")

\* The quota cached when sending started: the last quota page before the
\* first send request.
QuotaAtStart ==
    LET first == CHOOSE j \in Requests({"send"}) :
                     \A i \in Requests({"send"}) : j <= i
        pages == {i \in Requests({"quota"}) : i < first /\ net[i].resp = "page"}
        last == CHOOSE j \in pages : \A i \in pages : i <= j
    IN  net[last].n

ConfirmedSent == Cardinality({k \in 1..Len(results) : results[k]})

\* C23: between two parts and at the end, the cached quota is the quota at
\* the start minus the number of validated recipients times the number of
\* parts confirmed sent: a failed part changes nothing and the parts after it
\* are still tried.
C23_QuotaChangesOnlyOnSuccess ==
    /\ (pc \in {"L296", "done"} /\ Requests({"send"}) # {})
          => texts_remaining =
                Some(QuotaAtStart - Len(recipients_validated) * ConfirmedSent)
    /\ pc = "done" => Len(results) = Len(messages)

=============================================================================
